---- MODULE Spec2Model ----
(***************************************************************************)
(* prefix_strip (src/src/main.rs): detect the common prefix of a set of    *)
(* file names and strip or replace it by renaming the files.               *)
(*                                                                         *)
(* Text.  A Rust String is modelled as the sequence of its code points, an *)
(* OsString / a path component as the sequence of its bytes.  Utf8 and     *)
(* ToStringLossy convert between the two the way the standard library      *)
(* does, and `byte as char` is the code point numbered like the byte.      *)
(*                                                                         *)
(* Paths.  A PathBuf is [dir, name]: dir is the text before the final      *)
(* component ("" for a bare relative name, "./" for the working            *)
(* directory), name the bytes of the final component (<<>> when the path   *)
(* has none, as in "./" or "").  Every path of the model denotes an entry  *)
(* of the working directory, which is also the default source_directory.   *)
(***************************************************************************)
EXTENDS Integers, Sequences, FiniteSets, TLC

VARIABLES
    pc,              \* position of main
    args,            \* the parsed command line (struct Args)
    fs,              \* the working directory: file name (bytes) -> [kind, id]
    fs0,             \* the directory as it was when the run started
    candidates,      \* what get_named_paths returned
    named_paths,     \* main's named_paths (reassigned by vetting)
    prefix,          \* main's prefix
    new_named_paths, \* main's new_named_paths
    response,        \* Option: the line read by the confirmation loop
    index,           \* how many pairs of the zip the rename loop has consumed
    attempts,        \* log of the std::fs::rename calls: [old, new, ok]
    stderr,          \* log of the diagnostics written with eprintln!
    rt               \* harness applying get_new_named_paths twice

vars == <<pc, args, fs, fs0, candidates, named_paths, prefix, new_named_paths,
          response, index, attempts, stderr, rt>>

----------------------------------------------------------------------------
(* Option<T>: None is the empty tuple, Some(x) the one-element tuple. *)
None == <<>>

Some(x) == <<x>>

IsSome(o) == o # <<>>

Unwrap(o) == o[1]

----------------------------------------------------------------------------
(* Text conversions. *)

\* UTF-8 encoding of one code point (1 to 3 bytes).
EncodeChar(c) ==
    IF c < 128 THEN <<c>>
    ELSE IF c < 2048 THEN <<192 + (c \div 64), 128 + (c % 64)>>
    ELSE <<224 + (c \div 4096), 128 + ((c \div 64) % 64), 128 + (c % 64)>>

RECURSIVE Utf8(_)
\* str::as_bytes / OsString::from(String): the bytes of a string.
Utf8(s) == IF s = <<>> THEN <<>> ELSE EncodeChar(Head(s)) \o Utf8(Tail(s))

IsCont(b) == b >= 128 /\ b <= 191

ReplacementChar == 65533

RECURSIVE ToStringLossy(_)
\* OsStr::to_string_lossy: decode UTF-8, U+FFFD for bytes that are not.
ToStringLossy(b) ==
    IF b = <<>> THEN <<>>
    ELSE IF b[1] < 128 THEN <<b[1]>> \o ToStringLossy(Tail(b))
    ELSE IF b[1] >= 194 /\ b[1] <= 223 /\ Len(b) >= 2 /\ IsCont(b[2])
        THEN <<(b[1] - 192) * 64 + (b[2] - 128)>> \o ToStringLossy(SubSeq(b, 3, Len(b)))
    ELSE IF b[1] >= 224 /\ b[1] <= 239 /\ Len(b) >= 3 /\ IsCont(b[2]) /\ IsCont(b[3])
        THEN <<(b[1] - 224) * 4096 + (b[2] - 128) * 64 + (b[3] - 128)>>
                 \o ToStringLossy(SubSeq(b, 4, Len(b)))
    ELSE <<ReplacementChar>> \o ToStringLossy(Tail(b))

\* str::len: the length in bytes.
ByteLen(s) == Len(Utf8(s))

\* str::starts_with(&String): the bytes of pat lead the bytes of s.
StartsWith(s, pat) ==
    LET bs == Utf8(s)
        bp == Utf8(pat)
    IN  Len(bp) <= Len(bs) /\ SubSeq(bs, 1, Len(bp)) = bp

\* The offsets (in code points) at which pat occurs in s.
MatchOffsets(s, pat) ==
    {i \in 0..(Len(s) - Len(pat)) : SubSeq(s, i + 1, i + Len(pat)) = pat}

Min(S) == CHOOSE x \in S : \A y \in S : x <= y

\* str::replacen(pat, to, 1): replace the first occurrence of pat, if any.
Replacen1(s, pat, to) ==
    IF MatchOffsets(s, pat) = {} THEN s
    ELSE LET i == Min(MatchOffsets(s, pat))
         IN  SubSeq(s, 1, i) \o to \o SubSeq(s, i + Len(pat) + 1, Len(s))

\* str::is_char_boundary.
IsCharBoundary(s, k) == \E j \in 0..Len(s) : ByteLen(SubSeq(s, 1, j)) = k

\* str::split_at(mid) panics unless mid is a char boundary of s.
SplitAtPanics(s, mid) == ~IsCharBoundary(s, mid)

\* str::trim: drop leading and trailing whitespace.
IsSpace(c) == c \in {9, 10, 11, 12, 13, 32}

RECURSIVE TrimStart(_)
TrimStart(s) == IF s # <<>> /\ IsSpace(Head(s)) THEN TrimStart(Tail(s)) ELSE s

RECURSIVE TrimEnd(_)
TrimEnd(s) ==
    IF s # <<>> /\ IsSpace(s[Len(s)]) THEN TrimEnd(SubSeq(s, 1, Len(s) - 1)) ELSE s

Trim(s) == TrimEnd(TrimStart(s))

----------------------------------------------------------------------------
(* Inputs: the names, command lines and answers the runs are drawn from. *)

\* The texts "a" and "e-acute" (U+00E9, two bytes in UTF-8).
A == <<97>>

E == <<233>>

\* File names of the working directory, as text: "a", "e-acute", "a" + "e-acute",
\* "aa" + "e-acute", and "A" + "e-acute" with a capital A.
Names == {A, E, A \o E, A \o A \o E, <<65>> \o E}

\* A file name that is not UTF-8.
NonUtf8Name == <<255>>

FileNames == {Utf8(n) : n \in Names} \cup {NonUtf8Name}

\* Directory entries the working directory may hold: any name as a regular
\* file, and one of the names as a sub-directory.
Entries ==
    {[name |-> n, kind |-> "file"] : n \in FileNames}
        \cup {[name |-> Utf8(A), kind |-> "dir"]}

MaxFiles == 2

RECURSIVE Directories(_)
\* The directories of at most k entries, no name twice.
Directories(k) ==
    IF k = 0 THEN {{}}
    ELSE LET smaller == Directories(k - 1)
         IN  smaller \cup
             UNION {{d \cup {en} : en \in {x \in Entries : \A y \in d : y.name # x.name}}
                        : d \in smaller}

\* The directory d as the initial file system: the id tells the entries apart
\* after renames.
FsOf(d) ==
    [n \in {en.name : en \in d} |->
        LET en == CHOOSE x \in d : x.name = n IN [kind |-> en.kind, id |-> n]]

Path(dir, name) == [dir |-> dir, name |-> name]

\* Paths a user may pass after `--`: bare names, and "./".
ExplicitPaths == {Path("", Utf8(A)), Path("", Utf8(A \o E)), Path("./", <<>>)}

RECURSIVE SeqsUpTo(_, _)
\* The sequences over S of length 0..k.
SeqsUpTo(S, k) ==
    IF k = 0 THEN {<<>>}
    ELSE LET shorter == SeqsUpTo(S, k - 1)
         IN  shorter \cup {Append(q, x) : q \in {t \in shorter : Len(t) = k - 1}, x \in S}

PrefixArgs == {None, Some(<<>>), Some(A), Some(E)}

ReplaceArgs == {None, Some(<<>>), Some(E)}

\* Lines read_line may deliver: "y\n", "Y\n", " y \n", "n\n", "N\n", "\n",
\* "" (end of input), "a\n", "yy\n", "yn\n".
ResponseSet ==
    {<<121, 10>>, <<89, 10>>, <<32, 121, 32, 10>>, <<110, 10>>, <<78, 10>>, <<10>>,
     <<>>, <<97, 10>>, <<121, 121, 10>>, <<121, 110, 10>>}

ArgsSet ==
    [prefix : PrefixArgs,
     files : {None},
     include_directories : BOOLEAN,
     skip_confirmation : BOOLEAN,
     replace : ReplaceArgs]
    \cup
    [prefix : PrefixArgs,
     files : {Some(l) : l \in SeqsUpTo(ExplicitPaths, MaxFiles) \ {<<>>}},
     include_directories : {FALSE},
     skip_confirmation : BOOLEAN,
     replace : ReplaceArgs]

----------------------------------------------------------------------------
(* NamedPath and the pure functions of main.rs. *)

\* Path::file_name: the final component, None when the path has none.
file_name(pathbuf) == IF pathbuf.name = <<>> THEN None ELSE Some(pathbuf.name)

\* NamedPath::from_pathbuf.
from_pathbuf(pathbuf) ==
    IF file_name(pathbuf) = None THEN None
    ELSE Some([pathbuf |-> pathbuf, name |-> ToStringLossy(Unwrap(file_name(pathbuf)))])

\* PathBuf::set_file_name: drop the final component, if any, and push name.
set_file_name(pathbuf, name) == [dir |-> pathbuf.dir, name |-> name]

RECURSIVE CommonBytes(_, _, _)
\* The loop of try_find_prefix from `index` on: push the byte of the first name
\* (as a char) while every name has that byte at index.
CommonBytes(bytes, i, max_length) ==
    IF i >= max_length THEN <<>>
    ELSE LET first == bytes[1][i + 1]
         IN  IF \A k \in 1..Len(bytes) : bytes[k][i + 1] = first
             THEN <<first>> \o CommonBytes(bytes, i + 1, max_length)
             ELSE <<>>

\* Variant of try_find_prefix without the is_empty check before returning.
try_find_prefix_unchecked(nps) ==
    LET bytes == [k \in 1..Len(nps) |-> Utf8(nps[k].name)]
        max_length == Min({Len(bytes[k]) : k \in 1..Len(nps)})
    IN  Some(CommonBytes(bytes, 0, max_length))

\* try_find_prefix: None when nothing is common. named_paths is not empty.
try_find_prefix(nps) ==
    LET bytes == [k \in 1..Len(nps) |-> Utf8(nps[k].name)]
        max_length == Min({Len(bytes[k]) : k \in 1..Len(nps)})
        longest_common_prefix == CommonBytes(bytes, 0, max_length)
    IN  IF longest_common_prefix = <<>> THEN None ELSE Some(longest_common_prefix)

\* Variant of KeepsPrefix: keeps a name that holds p anywhere (contains).
KeepsIfContains(np, p) == MatchOffsets(np.name, p) # {}

\* The filter predicate of vet_named_paths.
KeepsPrefix(np, p) == StartsWith(np.name, p)

\* vet_named_paths: None stands for Err(NoFilesRemaining).
vet_named_paths(p, nps) ==
    LET vetted == SelectSeq(nps, LAMBDA np : KeepsPrefix(np, p))
    IN  IF vetted = <<>> THEN None ELSE Some(vetted)

\* The body of the loop of get_new_named_paths, before the unwrap.
new_named_path(np, replace, p) ==
    LET replace_str == IF IsSome(replace) THEN Unwrap(replace) ELSE <<>>
        new_name == Replacen1(np.name, p, replace_str)
    IN  from_pathbuf(set_file_name(np.pathbuf, Utf8(new_name)))

\* get_new_named_paths: None stands for the panic of unwrap() on None.
get_new_named_paths(nps, replace, p) ==
    LET made == [k \in 1..Len(nps) |-> new_named_path(nps[k], replace, p)]
    IN  IF \E k \in 1..Len(nps) : made[k] = None THEN None
        ELSE Some([k \in 1..Len(nps) |-> Unwrap(made[k])])

----------------------------------------------------------------------------
(* The file system calls. *)

\* Path::try_exists without a probe error: "./" is the working directory, the
\* empty path names nothing.
Exists(f, pathbuf) ==
    IF pathbuf.name = <<>> THEN pathbuf.dir = "./" ELSE pathbuf.name \in DOMAIN f

\* std::fs::rename can succeed: the source exists, the target has a final
\* component, and an existing target of another name is of the same kind.
RenameMaySucceed(f, old, new) ==
    /\ old.name \in DOMAIN f
    /\ new.name # <<>>
    /\ (new.name \in DOMAIN f /\ new.name # old.name) => f[new.name].kind = f[old.name].kind

\* The directory after a successful rename: the target is replaced.
Renamed(f, old, new) ==
    [n \in (DOMAIN f \ {old.name}) \cup {new.name} |->
        IF n = new.name THEN f[old.name] ELSE f[n]]

Diag(msg, pathopt) == [msg |-> msg, path |-> pathopt]

RECURSIVE Flatten(_)
Flatten(ss) == IF ss = <<>> THEN <<>> ELSE Head(ss) \o Flatten(Tail(ss))

Perms(S) == {q \in [1..Cardinality(S) -> S] : \A i, j \in DOMAIN q : q[i] = q[j] => i = j}

----------------------------------------------------------------------------
(* main, step by step. *)

InitRt == [stage |-> "off"]

Init ==
    /\ pc = "start"
    /\ args \in ArgsSet
    /\ \E d \in Directories(MaxFiles) : fs = FsOf(d)
    /\ fs0 = fs
    /\ candidates = <<>>
    /\ named_paths = <<>>
    /\ prefix = <<>>
    /\ new_named_paths = <<>>
    /\ response = None
    /\ index = 0
    /\ attempts = <<>>
    /\ stderr = <<>>
    /\ rt = InitRt

\* One explicit file of get_named_paths: what is pushed and what is reported.
ExplicitFile(file, probe_error) ==
    IF probe_error
        THEN [np |-> None, diag |-> <<Diag("Couldn't detect if exists", Some(file))>>]
    ELSE IF ~Exists(fs, file)
        THEN [np |-> None, diag |-> <<Diag("File doesn't exist", Some(file))>>]
    ELSE IF from_pathbuf(file) = None
        THEN [np |-> None, diag |-> <<Diag("Couldn't get filename", Some(file))>>]
    ELSE [np |-> from_pathbuf(file), diag |-> <<>>]

\* One directory entry of get_named_paths.
DirEntry(name, read_error) ==
    IF read_error
        THEN [np |-> None, diag |-> <<Diag("Error reading directory entry", None)>>]
    ELSE IF from_pathbuf(Path("./", name)) = None
        THEN [np |-> None, diag |-> <<Diag("Couldn't get filename", Some(Path("./", name)))>>]
    ELSE [np |-> from_pathbuf(Path("./", name)), diag |-> <<>>]

\* The end of get_named_paths and main's match on its result.
GotNamedPaths(items) ==
    LET nps == Flatten([k \in DOMAIN items |-> items[k].np])
        diags == Flatten([k \in DOMAIN items |-> items[k].diag])
    IN  IF nps = <<>>
        THEN /\ pc' = "err_getting_files"
             /\ stderr' = stderr \o diags \o <<Diag("Error getting files", None)>>
             /\ UNCHANGED <<candidates, named_paths>>
        ELSE /\ pc' = "resolved"
             /\ stderr' = stderr \o diags
             /\ candidates' = nps
             /\ named_paths' = nps

\* get_named_paths with an explicit file list.
GetNamedPathsFiles ==
    /\ pc = "start"
    /\ IsSome(args.files)
    /\ LET file_list == Unwrap(args.files)
       IN  \E probe_error \in [DOMAIN file_list -> BOOLEAN] :
               GotNamedPaths([k \in DOMAIN file_list |->
                                 ExplicitFile(file_list[k], probe_error[k])])
    /\ UNCHANGED <<args, fs, fs0, prefix, new_named_paths, response, index, attempts, rt>>

\* get_named_paths over source_directory: read_dir lists the entries in an
\* order of its own, and an entry may fail to be read.
GetNamedPathsDir ==
    /\ pc = "start"
    /\ args.files = None
    /\ \E listing \in Perms(DOMAIN fs) :
           \E read_error \in [DOMAIN listing -> BOOLEAN] :
               GotNamedPaths([k \in DOMAIN listing |-> DirEntry(listing[k], read_error[k])])
    /\ UNCHANGED <<args, fs, fs0, prefix, new_named_paths, response, index, attempts, rt>>

\* read_dir itself fails.
ReadDirFails ==
    /\ pc = "start"
    /\ args.files = None
    /\ pc' = "err_getting_files"
    /\ stderr' = Append(stderr, Diag("Error getting files", None))
    /\ UNCHANGED <<args, fs, fs0, candidates, named_paths, prefix, new_named_paths,
                   response, index, attempts, rt>>

\* main with a prefix given: vet the candidates.
VetNamedPaths ==
    /\ pc = "resolved"
    /\ IsSome(args.prefix)
    /\ LET p == Unwrap(args.prefix)
           vetted == vet_named_paths(p, named_paths)
       IN  IF IsSome(vetted)
           THEN /\ named_paths' = Unwrap(vetted)
                /\ prefix' = p
                /\ pc' = "prefixed"
                /\ UNCHANGED stderr
           ELSE /\ pc' = "err_no_files"
                /\ stderr' = Append(stderr, Diag("None of the specified files could be affected", None))
                /\ UNCHANGED <<named_paths, prefix>>
    /\ UNCHANGED <<args, fs, fs0, candidates, new_named_paths, response, index, attempts, rt>>

\* main without a prefix: guess it.
TryFindPrefix ==
    /\ pc = "resolved"
    /\ args.prefix = None
    /\ LET p_opt == try_find_prefix(named_paths)
       IN  IF IsSome(p_opt)
           THEN /\ prefix' = Unwrap(p_opt)
                /\ pc' = "prefixed"
                /\ UNCHANGED stderr
           ELSE /\ pc' = "err_no_prefix"
                /\ stderr' = Append(stderr, Diag("Couldn't guess a prefix!", None))
                /\ UNCHANGED prefix
    /\ UNCHANGED <<args, fs, fs0, candidates, named_paths, new_named_paths, response,
                   index, attempts, rt>>

\* main calls get_new_named_paths.
GetNewNamedPaths ==
    /\ pc = "prefixed"
    /\ LET planned == get_new_named_paths(named_paths, args.replace, prefix)
       IN  IF IsSome(planned)
           THEN new_named_paths' = Unwrap(planned) /\ pc' = "planned"
           ELSE pc' = "panic_plan" /\ UNCHANGED new_named_paths
    /\ UNCHANGED <<args, fs, fs0, candidates, named_paths, prefix, response, index,
                   attempts, stderr, rt>>

\* The two printing loops split every name with split_at.
PreviewPanics ==
    LET new_prefix_len == IF IsSome(args.replace) THEN ByteLen(Unwrap(args.replace)) ELSE 0
    IN  \/ \E k \in DOMAIN named_paths : SplitAtPanics(named_paths[k].name, ByteLen(prefix))
        \/ \E k \in DOMAIN new_named_paths :
               SplitAtPanics(new_named_paths[k].name, new_prefix_len)

Preview ==
    /\ pc = "planned"
    /\ pc' = IF PreviewPanics THEN "panic_preview"
             ELSE IF args.skip_confirmation THEN "execute"
             ELSE "confirm"
    /\ UNCHANGED <<args, fs, fs0, candidates, named_paths, prefix, new_named_paths,
                   response, index, attempts, stderr, rt>>

\* The prompt and read_line.
ReadLine ==
    /\ pc = "confirm"
    /\ \/ \E line \in ResponseSet : response' = Some(line) /\ pc' = "match" /\ UNCHANGED stderr
       \/ /\ pc' = "err_read_input"
          /\ stderr' = Append(stderr, Diag("Failed to read input", None))
          /\ UNCHANGED response
    /\ UNCHANGED <<args, fs, fs0, candidates, named_paths, prefix, new_named_paths,
                   index, attempts, rt>>

\* Variant of ConfirmOutcome that matches the line as read, without trim().
ConfirmOutcomeUntrimmed(line) ==
    IF line \in {<<121>>, <<89>>} THEN "break"
    ELSE IF line \in {<<110>>, <<78>>, <<>>} THEN "return"
    ELSE "continue"

\* `match response.trim()`.
ConfirmOutcome(line) ==
    IF Trim(line) \in {<<121>>, <<89>>} THEN "break"
    ELSE IF Trim(line) \in {<<110>>, <<78>>, <<>>} THEN "return"
    ELSE "continue"

MatchResponse ==
    /\ pc = "match"
    /\ pc' = CASE ConfirmOutcome(Unwrap(response)) = "break" -> "execute"
               [] ConfirmOutcome(Unwrap(response)) = "return" -> "declined"
               [] OTHER -> "confirm"
    /\ response' = None
    /\ UNCHANGED <<args, fs, fs0, candidates, named_paths, prefix, new_named_paths,
                   index, attempts, stderr, rt>>

\* Variant of Rename that leaves the loop at the first failure.
RenameStopsAtFailure ==
    /\ pc = "execute"
    /\ index < Len(named_paths)
    /\ LET old_path == named_paths[index + 1].pathbuf
           new_path == new_named_paths[index + 1].pathbuf
       IN  \/ /\ RenameMaySucceed(fs, old_path, new_path)
              /\ fs' = Renamed(fs, old_path, new_path)
              /\ attempts' = Append(attempts, [old |-> old_path, new |-> new_path, ok |-> TRUE])
              /\ pc' = IF index + 1 = Len(named_paths) THEN "done" ELSE "execute"
              /\ UNCHANGED stderr
           \/ /\ stderr' = Append(stderr, Diag("Failed to rename", Some(old_path)))
              /\ attempts' = Append(attempts, [old |-> old_path, new |-> new_path, ok |-> FALSE])
              /\ pc' = "done"
              /\ UNCHANGED fs
    /\ index' = index + 1
    /\ UNCHANGED <<args, fs0, candidates, named_paths, prefix, new_named_paths, response, rt>>

\* One iteration of the rename loop over the zipped pairs.
Rename ==
    /\ pc = "execute"
    /\ index < Len(named_paths)
    /\ LET old_path == named_paths[index + 1].pathbuf
           new_path == new_named_paths[index + 1].pathbuf
       IN  \/ /\ RenameMaySucceed(fs, old_path, new_path)
              /\ fs' = Renamed(fs, old_path, new_path)
              /\ attempts' = Append(attempts, [old |-> old_path, new |-> new_path, ok |-> TRUE])
              /\ UNCHANGED stderr
           \/ /\ stderr' = Append(stderr, Diag("Failed to rename", Some(old_path)))
              /\ attempts' = Append(attempts, [old |-> old_path, new |-> new_path, ok |-> FALSE])
              /\ UNCHANGED fs
    /\ index' = index + 1
    /\ pc' = IF index + 1 = Len(named_paths) THEN "done" ELSE "execute"
    /\ UNCHANGED <<args, fs0, candidates, named_paths, prefix, new_named_paths, response, rt>>

Next ==
    \/ GetNamedPathsFiles
    \/ GetNamedPathsDir
    \/ ReadDirFails
    \/ VetNamedPaths
    \/ TryFindPrefix
    \/ GetNewNamedPaths
    \/ Preview
    \/ ReadLine
    \/ MatchResponse
    \/ Rename

Spec == Init /\ [][Next]_vars

----------------------------------------------------------------------------
(* The planner applied twice: strip p, then put p back with an empty prefix. *)

\* Candidates as from_pathbuf makes them, bare or under "./".
RtCandidates ==
    {Unwrap(from_pathbuf(Path(dir, n))) : dir \in {"", "./"}, n \in FileNames}

\* The strings every name of nps starts with.
CommonPrefixes(nps) ==
    {q \in {SubSeq(nps[1].name, 1, k) : k \in 0..Len(nps[1].name)} :
        \A k \in DOMAIN nps : StartsWith(nps[k].name, q)}

InitRoundTrip ==
    /\ pc = "off"
    /\ args = [prefix |-> None, files |-> None, include_directories |-> FALSE,
               skip_confirmation |-> FALSE, replace |-> None]
    /\ fs = <<>>
    /\ fs0 = <<>>
    /\ candidates = <<>>
    /\ named_paths = <<>>
    /\ prefix = <<>>
    /\ new_named_paths = <<>>
    /\ response = None
    /\ index = 0
    /\ attempts = <<>>
    /\ stderr = <<>>
    /\ \E nps \in SeqsUpTo(RtCandidates, MaxFiles) \ {<<>>} :
           \E p \in CommonPrefixes(nps) :
               rt = [stage |-> "start", named_paths |-> nps, prefix |-> p,
                     stripped |-> <<>>, restored |-> <<>>]

\* get_new_named_paths with the prefix and an absent or empty replacement.
Strip ==
    /\ rt.stage = "start"
    /\ \E replace \in {None, Some(<<>>)} :
           LET planned == get_new_named_paths(rt.named_paths, replace, rt.prefix)
           IN  rt' = IF IsSome(planned)
                     THEN [rt EXCEPT !.stage = "stripped", !.stripped = Unwrap(planned)]
                     ELSE [rt EXCEPT !.stage = "strip_panicked"]
    /\ UNCHANGED <<pc, args, fs, fs0, candidates, named_paths, prefix, new_named_paths,
                   response, index, attempts, stderr>>

\* get_new_named_paths on the result, the pair reversed: prefix "", replacement p.
Restore ==
    /\ rt.stage = "stripped"
    /\ LET planned == get_new_named_paths(rt.stripped, Some(rt.prefix), <<>>)
       IN  rt' = IF IsSome(planned)
                 THEN [rt EXCEPT !.stage = "restored", !.restored = Unwrap(planned)]
                 ELSE [rt EXCEPT !.stage = "restore_panicked"]
    /\ UNCHANGED <<pc, args, fs, fs0, candidates, named_paths, prefix, new_named_paths,
                   response, index, attempts, stderr>>

NextRoundTrip == Strip \/ Restore

SpecRoundTrip == InitRoundTrip /\ [][NextRoundTrip]_vars

----------------------------------------------------------------------------
(* Properties. *)

\* p leads s, code point by code point.
IsPrefixOf(p, s) == Len(p) <= Len(s) /\ \A k \in 1..Len(p) : s[k] = p[k]

\* main has a prefix and a working set.
PrefixResolved ==
    pc \in {"prefixed", "planned", "panic_plan", "panic_preview", "confirm", "match",
            "declined", "err_read_input", "execute", "done"}

\* main has the rename plan.
Planned ==
    pc \in {"planned", "panic_preview", "confirm", "match", "declined", "err_read_input",
            "execute", "done"}

\* C1: in discovery mode the prefix found is the longest common prefix of the
\* candidates' base names: it is not empty, every base name starts with it, and
\* no string one character longer is a prefix of every base name.
C1_DiscoveryFindsLongestCommonPrefix ==
    (args.prefix = None /\ PrefixResolved) =>
        /\ prefix # <<>>
        /\ \A k \in DOMAIN named_paths : IsPrefixOf(prefix, named_paths[k].name)
        /\ ~\A k \in DOMAIN named_paths :
               /\ Len(named_paths[k].name) > Len(prefix)
               /\ Len(named_paths[1].name) > Len(prefix)
               /\ named_paths[k].name[Len(prefix) + 1] = named_paths[1].name[Len(prefix) + 1]

\* C2: in directory mode without include_directories, no directory of the
\* source directory is a candidate.
C2_DirectoriesExcludedUnlessIncluded ==
    (args.files = None /\ ~args.include_directories) =>
        \A k \in DOMAIN candidates : fs0[candidates[k].pathbuf.name].kind # "dir"

\* The answers that proceed, and those that decline.
YesAnswers == {<<121>>, <<89>>}

NoAnswers == {<<110>>, <<78>>, <<>>}

\* C3: the confirmation loop: a trimmed answer y or Y goes on to the renames; n,
\* N or an empty answer ends the run with the directory as it was and no rename
\* attempted; any other answer prompts again; and nothing is renamed meanwhile.
C3_ConfirmLoop ==
    [][/\ pc = "match" =>
            /\ Trim(Unwrap(response)) \in YesAnswers => pc' = "execute"
            /\ Trim(Unwrap(response)) \in NoAnswers => pc' = "declined"
            /\ Trim(Unwrap(response)) \notin YesAnswers \cup NoAnswers => pc' = "confirm"
            /\ fs' = fs
            /\ attempts' = attempts
       /\ pc' \in {"confirm", "match", "declined"} => fs' = fs0 /\ attempts' = <<>>
       /\ pc = "declined" => pc' = "declined" /\ fs' = fs
       /\ (pc' = "execute" /\ pc # "execute" /\ ~args.skip_confirmation) => pc = "match"
      ]_vars

\* The run declined: two candidates were planned, the answer was no.
C3_Witness == pc = "declined" /\ Len(new_named_paths) >= 2 /\ fs = fs0 /\ fs0 # <<>>

RECURSIVE ApplyRenames(_, _)
\* The directory f after the successful renames of the log, in order.
ApplyRenames(f, log) ==
    IF log = <<>> THEN f
    ELSE ApplyRenames(IF Head(log).ok THEN Renamed(f, Head(log).old, Head(log).new) ELSE f,
                      Tail(log))

RenameDiags == SelectSeq(stderr, LAMBDA d : d.msg = "Failed to rename")

FailedRenames == SelectSeq(attempts, LAMBDA t : ~t.ok)

\* C4: the rename loop attempts every planned pair once, in planner order,
\* whatever happened to the earlier pairs; each failure writes one diagnostic,
\* and the renames that succeeded stay done.
C4_EveryPairAttemptedOnce ==
    pc \in {"execute", "done"} =>
        /\ Len(attempts) = index
        /\ pc = "done" => index = Len(named_paths)
        /\ \A k \in 1..index :
               /\ attempts[k].old = named_paths[k].pathbuf
               /\ attempts[k].new = new_named_paths[k].pathbuf
        /\ Len(RenameDiags) = Len(FailedRenames)
        /\ \A k \in DOMAIN RenameDiags : RenameDiags[k].path = Some(FailedRenames[k].old)
        /\ fs = ApplyRenames(fs0, attempts)

\* A finished batch whose first rename failed and whose last succeeded.
C4_Witness ==
    /\ pc = "done"
    /\ Len(attempts) >= 2
    /\ ~attempts[1].ok
    /\ attempts[Len(attempts)].ok
    /\ Len(RenameDiags) = 1
    /\ fs # fs0

\* C5: the directory changes only in the rename loop, the last step: outside it
\* (every fatal end included) the directory is as it was and no rename was
\* attempted, and the loop is reached only with candidates and, in discovery
\* mode, a prefix that is not empty.
C5_RenamesOnlyInExecute ==
    /\ pc \notin {"execute", "done"} => fs = fs0 /\ attempts = <<>>
    /\ pc \in {"execute", "done"} =>
           /\ named_paths # <<>>
           /\ args.prefix = None => prefix # <<>>
    /\ pc = "done" => index = Len(named_paths)

\* Discovery failed over two candidates: nothing was renamed.
C5_Witness ==
    /\ pc = "err_no_prefix"
    /\ Len(candidates) >= 2
    /\ fs = fs0
    /\ attempts = <<>>

\* C6: planning never panics, and every planned base name is non-empty.
C6_PlanningNeverFails ==
    /\ pc # "panic_plan"
    /\ Planned => \A k \in DOMAIN new_named_paths : new_named_paths[k].name # <<>>

\* C7: no two candidates have the same path.
C7_CandidatesUniqueByPath ==
    \A i, j \in DOMAIN candidates :
        candidates[i].pathbuf = candidates[j].pathbuf => i = j

\* C8: with a prefix given, the working set is the candidates whose base name
\* starts with it, in their order, the prefix is the one given, and a set that
\* would be empty is the NoFilesRemaining error instead.
C8_ValidationFilters ==
    IsSome(args.prefix) =>
        /\ PrefixResolved =>
               /\ prefix = Unwrap(args.prefix)
               /\ named_paths # <<>>
               /\ named_paths =
                      SelectSeq(candidates, LAMBDA np : IsPrefixOf(Unwrap(args.prefix), np.name))
        /\ pc = "err_no_files" =>
               /\ candidates # <<>>
               /\ \A k \in DOMAIN candidates :
                      ~IsPrefixOf(Unwrap(args.prefix), candidates[k].name)
        /\ (candidates # <<>> /\ pc # "resolved") => (PrefixResolved \/ pc = "err_no_files")

\* Vetting with "a" kept one candidate and dropped the one that starts with "A".
C8_Witness ==
    /\ pc = "prefixed"
    /\ args.prefix = Some(A)
    /\ Len(named_paths) = 1
    /\ Len(candidates) = 2
    /\ \E k \in DOMAIN candidates : candidates[k].name = <<65>> \o E

\* C9: stripping a prefix every name starts with and planning again with the
\* pair reversed gives every name back.
C9_RoundTrip ==
    /\ rt.stage \notin {"strip_panicked", "restore_panicked"}
    /\ rt.stage = "restored" =>
           \A k \in DOMAIN rt.named_paths : rt.restored[k].name = rt.named_paths[k].name

\* C10: with distinct base names and no replacement, no planned path is the
\* current path of another candidate.
C10_NoPlannedPathIsAnotherCandidate ==
    (/\ Planned
     /\ args.replace = None
     /\ \A i, j \in DOMAIN named_paths : named_paths[i].name = named_paths[j].name => i = j)
        => \A i, j \in DOMAIN named_paths :
               i # j => new_named_paths[i].pathbuf # named_paths[j].pathbuf

====
